---- MODULE Spec2Model ----
(***************************************************************************)
(* Model of src/typed_event.ts: the TypedEvent / TypedEventController      *)
(* interfaces and the anonymous class returned by                          *)
(* makeTypedEventController.                                               *)
(*                                                                         *)
(* Three controllers A, B, C are created by makeTypedEventController().    *)
(* Client code registers listeners and passthroughs on them and fires      *)
(* them.  A firing is executed one loop iteration of fire() at a time; a   *)
(* passthrough entry is the bound fire of its target, so invoking it       *)
(* pushes a nested fire() frame on the call stack.                         *)
(***************************************************************************)
EXTENDS Naturals, Sequences, FiniteSets

\* ---------------------------------------------------------------- bounds
\* Client code performs at most MaxRegs top-level registrations.
MaxRegs == 3
\* Call-stack capacity of the host, counted in fire() frames.
MaxStack == 4

\* ------------------------------------------------------- the environment
Channels == {"A", "B", "C"}
Data == {"d1", "d2"}
NoChannel == "-"
NoData == "-"
NoError == "none"

\* Listener functions supplied by client code (the `listener` argument of
\* addListener).  "a" only records its invocation; "f" records it and
\* throws the error "Ef" when the payload is BadData; "r" records it and, the first time it runs, calls
\* A.addListener(b), where "b" is a listener of its own that only records
\* its invocation.
PlainIds == {"a", "b"}
ThrowingIds == {"f"}
RegisteringIds == {"r"}
ListenerIds == {"a"} \cup ThrowingIds \cup RegisteringIds

Listener(id) == [kind |-> "fn", id |-> id, to |-> NoChannel]

\* A listener written by client code whose body is target.fire(d).
Forwarder(target) == [kind |-> "pass", id |-> "fire", to |-> target]

\* controller.fire without bind: invoked as a listener it has no receiver.
UnboundFire(controller) == [kind |-> "unbound", id |-> "fire", to |-> controller]

\* controller.fire.bind(controller)
BoundFire(controller) == [kind |-> "pass", id |-> "fire", to |-> controller]

\* What reading past the end of a JavaScript array yields.
Undefined == [kind |-> "undefined", id |-> "undefined", to |-> NoChannel]

\* The payload that listener "f" rejects.
BadData == "d1"

\* The error a listener body throws when invoked with payload d, NoError if
\* it returns normally.
ErrorOf(id, d) == IF id \in ThrowingIds /\ d = BadData THEN "E" \o id ELSE NoError

\* The errors that listener bodies throw.
ListenerErrors == {ErrorOf(id, BadData) : id \in ThrowingIds}

\* What listener "r" registers, and where.
RegTarget == "A"
RegListener == Listener("b")

\* ------------------------------------------------------------ interfaces
TypedEventMethodsWithFire == {"addListener", "addPassthroughListener", "fire"}

\* interface TypedEvent<T>
TypedEventMethods == {"addListener", "addPassthroughListener"}

\* interface TypedEventController<T> extends TypedEvent<T>
TypedEventControllerMethods == TypedEventMethods \cup {"fire"}

Views == {"TypedEvent", "TypedEventController"}

Methods(view) ==
    IF view = "TypedEventController" THEN TypedEventControllerMethods
    ELSE TypedEventMethods

\* ----------------------------------------------------------------- state
VARIABLES
    listeners,  \* listeners[c]: the _listeners array of controller c
    stack,      \* the active fire() calls, outermost first: [ch, i, data]
    log,        \* listener invocations of the current top-level fire()
    outcome,    \* "idle", "running", "returned" or "thrown"
    err,        \* the error the top-level fire() ended with
    armed,      \* listener "r" has not registered yet
    registered, \* registered[c]: the registrations made on c, in call order
    atStart,    \* registered when the current top-level fire() was called
    fch,        \* the controller the top-level fire() was called on
    fdata,      \* the data the top-level fire() was called with
    via,        \* the view through which the last top-level call was made
    refire      \* 0, or, when the current top-level fire() was called on
                \* the same controller right after a fire() that ended with
                \* a listener's error, the number of listeners that one's
                \* loop invoked

vars == <<listeners, stack, log, outcome, err, armed, registered, atStart, fch, fdata, via, refire>>

\* private readonly _listeners: Array<(_:T) => void> = [];
NewListeners == <<>>

Init ==
    /\ listeners = [c \in Channels |-> NewListeners]
    /\ stack = <<>>
    /\ log = <<>>
    /\ outcome = "idle"
    /\ err = NoError
    /\ armed = TRUE
    /\ registered = [c \in Channels |-> <<>>]
    /\ atStart = [c \in Channels |-> <<>>]
    /\ fch = NoChannel
    /\ fdata = NoData
    /\ via = "TypedEventController"
    /\ refire = 0

\* ---------------------------------------------------------------- helpers
RECURSIVE SumLen(_, _)
SumLen(L, S) ==
    IF S = {} THEN 0
    ELSE LET c == CHOOSE x \in S : TRUE IN Len(L[c]) + SumLen(L, S \ {c})

TotalRegs == SumLen(listeners, Channels)

\* One array shared by every controller.
PushShared(L, c, listener) == [x \in DOMAIN L |-> Append(L[x], listener)]

PushReplace(L, c, listener) == [L EXCEPT ![c] = <<listener>>]

PushFront(L, c, listener) == [L EXCEPT ![c] = <<listener>> \o @]

\* Array.prototype.push on the _listeners array of controller c.
Push(L, c, listener) == [L EXCEPT ![c] = Append(@, listener)]

AddListenerOnce(L, c, listener) ==
    IF \E k \in 1..Len(L[c]) : L[c][k] = listener THEN L ELSE Push(L, c, listener)

\* The body of addListener: this._listeners.push(listener).
AddListenerTo(L, c, listener) == Push(L, c, listener)

\* The loop runs over the array as it was when the top-level fire() was
\* called.
HasNextInSnapshot(arr, i) ==
    i <= (IF stack # <<>> /\ Len(atStart[stack[Len(stack)].ch]) < Len(arr)
          THEN Len(atStart[stack[Len(stack)].ch]) ELSE Len(arr))

HasNextButLast(arr, i) == i < Len(arr)

HasNextDoWhile(arr, i) == i = 1 \/ i <= Len(arr)

\* The for-of loop's array iterator: it compares its index with the array's
\* current length on every step.
HasNext(arr, i) == i <= Len(arr)

At(arr, i) == IF i <= Len(arr) THEN arr[i] ELSE Undefined

PassDataDropped(d) == NoData

\* The data a bound fire hands to its controller's fire().
PassData(d) == d

\* The data fire() hands to a listener.
ListenerData(d) == d

PassTargetThis(self, entry) == self

PassTargetLast(self, entry) == "C"

\* The controller a passthrough entry of controller `self` fires.
PassTarget(self, entry) == entry.to

PropagateWrapped(e) == "Error: " \o e

\* The error that leaves fire() when a listener throws e: there is no
\* try/catch in fire(), so it is e itself.
Propagate(e) == e

\* -------------------------------------------------------- top-level calls
\* c.addListener(Listener(id)) called by client code through view v.
AddListener(v, c, id) ==
    /\ stack = <<>>
    /\ "addListener" \in Methods(v)
    /\ TotalRegs < MaxRegs
    /\ listeners' = AddListenerTo(listeners, c, Listener(id))
    /\ registered' = [registered EXCEPT ![c] = Append(@, Listener(id))]
    /\ atStart' = registered'
    /\ log' = <<>>
    /\ outcome' = "idle"
    /\ err' = NoError
    /\ fch' = NoChannel
    /\ fdata' = NoData
    /\ via' = v
    /\ refire' = 0
    /\ UNCHANGED <<stack, armed>>

\* controller.addListener(this.fire.bind(this)): the relay is installed the
\* wrong way round.
AddPassthroughListenerReversed(v, c, controller) ==
    /\ stack = <<>>
    /\ "addPassthroughListener" \in Methods(v)
    /\ TotalRegs < MaxRegs
    /\ listeners' = AddListenerTo(listeners, controller, BoundFire(c))
    /\ registered' = [registered EXCEPT ![c] = Append(@, BoundFire(controller))]
    /\ atStart' = registered'
    /\ log' = <<>>
    /\ outcome' = "idle"
    /\ err' = NoError
    /\ fch' = NoChannel
    /\ fdata' = NoData
    /\ via' = v
    /\ refire' = 0
    /\ UNCHANGED <<stack, armed>>

\* c.addPassthroughListener(controller) called by client code through view v.
AddPassthroughListener(v, c, controller) ==
    /\ stack = <<>>
    /\ "addPassthroughListener" \in Methods(v)
    /\ TotalRegs < MaxRegs
    /\ listeners' = AddListenerTo(listeners, c, BoundFire(controller))
    /\ registered' = [registered EXCEPT ![c] = Append(@, BoundFire(controller))]
    /\ atStart' = registered'
    /\ log' = <<>>
    /\ outcome' = "idle"
    /\ err' = NoError
    /\ fch' = NoChannel
    /\ fdata' = NoData
    /\ via' = v
    /\ refire' = 0
    /\ UNCHANGED <<stack, armed>>

\* c.addListener(d => target.fire(d)) called by client code through view v.
AddForwardingListener(v, c, target) ==
    /\ stack = <<>>
    /\ "addListener" \in Methods(v)
    /\ TotalRegs < MaxRegs
    /\ listeners' = AddListenerTo(listeners, c, Forwarder(target))
    /\ registered' = [registered EXCEPT ![c] = Append(@, Forwarder(target))]
    /\ atStart' = registered'
    /\ log' = <<>>
    /\ outcome' = "idle"
    /\ err' = NoError
    /\ fch' = NoChannel
    /\ fdata' = NoData
    /\ via' = v
    /\ refire' = 0
    /\ UNCHANGED <<stack, armed>>

\* The loop goes on where the fire() before it on this controller was cut
\* short.
FirstIndexResumed(c) ==
    IF outcome = "thrown" /\ fch = c
    THEN Cardinality({j \in 1..Len(log) : log[j].depth = 1}) + 1
    ELSE 1

\* Where the for-of loop of a fire() called on controller c starts: every
\* call makes a new iterator over this._listeners.
FirstIndex(c) == 1

\* c.fire(d) called by client code through view v: the call is entered.
Fire(v, c, d) ==
    /\ stack = <<>>
    /\ "fire" \in Methods(v)
    /\ stack' = <<[ch |-> c, i |-> FirstIndex(c), data |-> d]>>
    /\ atStart' = registered
    /\ log' = <<>>
    /\ outcome' = "running"
    /\ err' = NoError
    /\ fch' = c
    /\ fdata' = d
    /\ via' = v
    /\ refire' = IF outcome = "thrown" /\ err \in ListenerErrors /\ fch = c
                 THEN Cardinality({j \in 1..Len(log) : log[j].depth = 1})
                 ELSE 0
    /\ UNCHANGED <<listeners, registered, armed>>

\* ------------------------------------------------------ the loop of fire()
Top == stack[Len(stack)]

Advanced == [stack EXCEPT ![Len(stack)].i = @ + 1]

\* The nested fire() is left, its caller's loop goes on.
ThrowCaughtByCaller(e) ==
    IF Len(stack) > 1
    THEN /\ stack' = SubSeq(stack, 1, Len(stack) - 1)
         /\ UNCHANGED <<outcome, err>>
    ELSE /\ stack' = <<>>
         /\ outcome' = "thrown"
         /\ err' = e

\* An exception leaves every active fire(): none of them catches it.
Throw(e) ==
    /\ stack' = <<>>
    /\ outcome' = "thrown"
    /\ err' = Propagate(e)

\* One iteration of `for(let listener of this._listeners) listener(data)` in
\* the innermost active fire().
Dispatch ==
    /\ stack # <<>>
    /\ HasNext(listeners[Top.ch], Top.i)
    /\ LET entry == At(listeners[Top.ch], Top.i)
           d == ListenerData(Top.data)
       IN /\ log' = Append(log, [ch |-> Top.ch, idx |-> Top.i, lis |-> entry,
                                 data |-> d, depth |-> Len(stack)])
          /\ CASE entry.kind = "pass" ->
                    /\ IF Len(stack) >= MaxStack
                       THEN Throw("RangeError")
                       ELSE /\ stack' = Append(Advanced,
                                   [ch |-> PassTarget(Top.ch, entry),
                                    i |-> FirstIndex(PassTarget(Top.ch, entry)),
                                    data |-> PassData(d)])
                            /\ UNCHANGED <<outcome, err>>
                    /\ UNCHANGED <<listeners, registered, armed>>
               [] entry.kind = "fn" /\ ErrorOf(entry.id, d) # NoError ->
                    /\ Throw(ErrorOf(entry.id, d))
                    /\ UNCHANGED <<listeners, registered, armed>>
               [] entry.kind = "fn" /\ entry.id \in RegisteringIds ->
                    /\ listeners' = IF armed
                                    THEN AddListenerTo(listeners, RegTarget, RegListener)
                                    ELSE listeners
                    /\ registered' = IF armed
                                     THEN [registered EXCEPT ![RegTarget] = Append(@, RegListener)]
                                     ELSE registered
                    /\ armed' = FALSE
                    /\ stack' = Advanced
                    /\ UNCHANGED <<outcome, err>>
               [] entry.kind = "fn" /\ entry.id \in PlainIds \cup ThrowingIds ->
                    /\ stack' = Advanced
                    /\ UNCHANGED <<listeners, registered, armed, outcome, err>>
               [] OTHER ->
                    /\ Throw("TypeError")
                    /\ UNCHANGED <<listeners, registered, armed>>
    /\ UNCHANGED <<atStart, fch, fdata, via, refire>>

\* The loop of the innermost active fire() is exhausted: fire() returns.
Return ==
    /\ stack # <<>>
    /\ ~HasNext(listeners[Top.ch], Top.i)
    /\ stack' = SubSeq(stack, 1, Len(stack) - 1)
    /\ outcome' = IF Len(stack) = 1 THEN "returned" ELSE outcome
    /\ UNCHANGED <<listeners, log, err, armed, registered, atStart, fch, fdata, via, refire>>

Next ==
    \/ \E v \in Views, c \in Channels, id \in ListenerIds : AddListener(v, c, id)
    \/ \E v \in Views, c \in Channels, t \in Channels : AddPassthroughListener(v, c, t)
    \/ \E v \in Views, c \in Channels, t \in Channels : AddForwardingListener(v, c, t)
    \/ \E v \in Views, c \in Channels, d \in Data : Fire(v, c, d)
    \/ Dispatch
    \/ Return

Spec == Init /\ [][Next]_vars

\* fire() is synchronous: once called, its loop runs on without waiting for
\* anything.
FairSpec == Spec /\ WF_vars(Dispatch) /\ WF_vars(Return)

\* ------------------------------------------------- reading the invocations
IsPrefix(s, t) == Len(s) <= Len(t) /\ SubSeq(t, 1, Len(s)) = s

\* The invocations made by the loop of the top-level fire() itself.
TopLog == SelectSeq(log, LAMBDA r : r.depth = 1)

Last(s) == s[Len(s)]

Fired == outcome \in {"running", "returned", "thrown"}

\* The error with which the invocation recorded as r ends when it raises.
RaisedBy(r) == IF r.lis.kind = "pass" THEN "RangeError" ELSE ErrorOf(r.lis.id, r.data)

\* --------------------------------------------------------------------- C1
\* C1: in every firing the top-level fire() invokes the registrations of the
\* fired controller in registration order, one at a time: its k-th
\* invocation is the k-th registration, the loop stands at the registration
\* after the last one invoked, and a firing that returns has invoked every
\* registration made before it, in order.
C1_RegistrationOrder ==
    Fired =>
        /\ Len(TopLog) <= Len(registered[fch])
        /\ \A k \in 1..Len(TopLog) :
              /\ TopLog[k].ch = fch
              /\ TopLog[k].idx = k
              /\ TopLog[k].lis = registered[fch][k]
        /\ stack # <<>> => stack[1].ch = fch /\ stack[1].i = Len(TopLog) + 1
        /\ outcome = "returned" =>
              /\ Len(TopLog) >= Len(atStart[fch])
              /\ IsPrefix(atStart[fch], [k \in 1..Len(TopLog) |-> TopLog[k].lis])

\* A later firing (listener r ran in an earlier one) of three different
\* registrations has returned.
C1_Witness ==
    /\ outcome = "returned"
    /\ ~armed
    /\ \A k \in 1..Len(log) : log[k].lis # Listener("r")
    /\ Len(atStart[fch]) = 3
    /\ atStart[fch][1] # atStart[fch][2]
    /\ atStart[fch][2] # atStart[fch][3]
    /\ atStart[fch][1] # atStart[fch][3]
    /\ Len(TopLog) = 3

\* --------------------------------------------------------------------- C2
\* C2: when a firing ends with an error, the top-level fire() has invoked
\* registrations 1..k of the fired controller in order, the k-th being the
\* one that raised; nothing is invoked after the raising invocation, so
\* registrations k+1..n are not invoked; and the error that leaves fire() is
\* exactly the one raised, unwrapped.
C2_FailureTruncation ==
    outcome = "thrown" =>
        /\ log # <<>>
        /\ Len(TopLog) >= 1
        /\ Len(TopLog) <= Len(registered[fch])
        /\ \A k \in 1..Len(TopLog) :
              TopLog[k].idx = k /\ TopLog[k].lis = registered[fch][k]
        /\ \A j \in 1..Len(log) :
              log[j].ch = fch /\ log[j].depth = 1 => log[j].idx <= Len(TopLog)
        /\ err # NoError
        /\ err = RaisedBy(Last(log))
        /\ stack = <<>>

\* Listener 2 of 3 threw: listener 1 had run, listener 3 did not.
C2_Witness ==
    /\ outcome = "thrown"
    /\ Len(registered[fch]) = 3
    /\ Len(TopLog) = 2
    /\ TopLog[2].lis = Listener("f")
    /\ err = "Ef"

\* --------------------------------------------------------------------- C3
Occurrences(s, e) == Cardinality({k \in 1..Len(s) : s[k] = e})

TopInvoked == [k \in 1..Len(TopLog) |-> TopLog[k].lis]

C4_InvokedOncePerEarlierRegistration ==
    outcome = "returned" =>
        \A k \in 1..Len(TopLog) :
            Occurrences(TopInvoked, TopLog[k].lis) = Occurrences(atStart[fch], TopLog[k].lis)

\* C4, amended: in a firing that returns, the loop of the top-level fire()
\* invokes each listener as many times as it is registered on the fired
\* controller when the firing ends, which is at least the number of its
\* registrations before the firing; registrations are not deduplicated.
C4_InvokedOncePerRegistration ==
    outcome = "returned" =>
        /\ \A k \in 1..Len(registered[fch]) :
              /\ Occurrences(TopInvoked, registered[fch][k])
                    = Occurrences(registered[fch], registered[fch][k])
              /\ Occurrences(TopInvoked, registered[fch][k])
                    >= Occurrences(atStart[fch], registered[fch][k])
        /\ Len(TopInvoked) = Len(registered[fch])

\* A listener registered twice before the firing was invoked twice.
C4_Witness ==
    /\ outcome = "returned"
    /\ \E k \in 1..Len(atStart[fch]) :
          /\ atStart[fch][k].kind = "fn"
          /\ Occurrences(atStart[fch], atStart[fch][k]) = 2
          /\ Occurrences(TopInvoked, atStart[fch][k]) = 2

\* ------------------------------------------------- the passthrough graph
\* The controllers that the passthrough entries of controller c fire.
Edges(L, c) == {L[c][k].to : k \in {j \in 1..Len(L[c]) : L[c][j].kind = "pass"}}

RECURSIVE Closure(_, _)
Closure(L, S) ==
    LET N == S \cup UNION {Edges(L, c) : c \in S}
    IN IF N = S THEN S ELSE Closure(L, N)

\* The controllers on the passthrough chains that start at c, c included.
ReachFrom(L, c) == Closure(L, {c})

\* A passthrough chain that starts at c runs into a cycle.
HasCycle(L, c) == \E x \in ReachFrom(L, c) : x \in Closure(L, Edges(L, x))

\* --------------------------------------------------------------------- C5
\* C5: a firing that returns has invoked, with the payload given to the
\* top-level fire(), every registration that was present when the firing
\* was called on every controller reachable from the fired one through
\* passthrough entries.
C5_PassthroughForwarding ==
    outcome = "returned" =>
        \A c \in ReachFrom(atStart, fch) :
            \A k \in 1..Len(atStart[c]) :
                \E j \in 1..Len(log) :
                    /\ log[j].ch = c
                    /\ log[j].idx = k
                    /\ log[j].lis = atStart[c][k]
                    /\ log[j].data = fdata

\* A chain of two passthroughs was followed: a listener of the third
\* controller was invoked from the firing of the first.
C5_Witness ==
    /\ outcome = "returned"
    /\ Cardinality(ReachFrom(atStart, fch)) = 3
    /\ \E j \in 1..Len(log) :
          /\ log[j].depth = 3
          /\ log[j].lis.kind = "fn"
          /\ log[j].ch # fch
          /\ log[j].data = fdata

\* --------------------------------------------------------------------- C6
\* C6: every invocation made during a firing, by the top-level fire() or by
\* a nested one, receives the payload given to the top-level fire().
C6_PayloadIdentity ==
    \A j \in 1..Len(log) : log[j].data = fdata

\* A listener reached through a passthrough and a directly registered one
\* have both been invoked in one firing.
C6_Witness ==
    /\ outcome = "returned"
    /\ fdata = "d2"
    /\ \E j, k \in 1..Len(log) :
          /\ log[j].depth = 1 /\ log[j].lis.kind = "fn"
          /\ log[k].depth = 2 /\ log[k].lis.kind = "fn"

C7_AcyclicNeverOverflows ==
    /\ Fired /\ ~HasCycle(registered, fch) =>
          /\ outcome = "thrown" => err \in ListenerErrors
          /\ Len(stack) <= Cardinality(Channels)
    /\ outcome = "thrown" /\ err \notin ListenerErrors =>
          /\ err = "RangeError"
          /\ HasCycle(registered, fch)
          /\ Last(log).depth = MaxStack

C8_ListenersOnlyGrow ==
    [][\A c \in Channels : IsPrefix(listeners[c], listeners'[c])]_vars

\* A controller's array has grown by top-level registrations and by one made
\* during a firing.
C8_Witness ==
    /\ outcome = "returned"
    /\ Len(listeners[fch]) >= 3
    /\ Len(listeners[fch]) > Len(atStart[fch])

\* --------------------------------------------------------------------- C9
\* C9: a firing of a controller with no registrations invokes nothing,
\* changes no controller's array, does not end with an error, and its loop
\* is exhausted at once, so that it returns.
C9_EmptyFireIsNoOp ==
    Fired /\ atStart[fch] = <<>> =>
        /\ outcome # "thrown"
        /\ err = NoError
        /\ log = <<>>
        /\ listeners = atStart
        /\ outcome = "running" =>
              /\ Len(stack) = 1
              /\ stack[1].ch = fch
              /\ stack[1].i > Len(listeners[fch])

\* A freshly created controller was fired while another one had listeners.
C9_Witness ==
    /\ outcome = "returned"
    /\ atStart[fch] = <<>>
    /\ \E c \in Channels : atStart[c] # <<>>

\* -------------------------------------------------------------------- C10
\* C10: a firing is only ever started through the TypedEventController view;
\* the TypedEvent view offers addListener and addPassthroughListener and
\* nothing else.
C10_CapabilitySeparation ==
    /\ Fired => via = "TypedEventController"
    /\ via = "TypedEvent" =>
          /\ Methods(via) = {"addListener", "addPassthroughListener"}
          /\ outcome = "idle"

\* A holder of the TypedEvent view has registered on a controller.
C10_Witness ==
    /\ via = "TypedEvent"
    /\ outcome = "idle"
    /\ TotalRegs > 0

\* -------------------------------------------------------------------- C11
\* C11: when a listener reached through a passthrough raises, its invocation
\* is the last one of the whole firing, so the remaining listeners of its
\* controller and the listeners registered after the passthrough entry on
\* the fired controller are skipped; the top-level fire() ends with that
\* listener's error, unchanged, and the last entry its own loop invoked is
\* the passthrough.
C11_PassthroughFailure ==
    \A j \in 1..Len(log) :
        log[j].depth >= 2 /\ log[j].lis.kind = "fn"
            /\ ErrorOf(log[j].lis.id, log[j].data) # NoError =>
            /\ j = Len(log)
            /\ outcome = "thrown"
            /\ err = ErrorOf(log[j].lis.id, log[j].data)
            /\ stack = <<>>
            /\ Last(TopLog).lis.kind = "pass"
            /\ Last(TopLog).idx = Len(TopLog)
            /\ \A k \in 1..Len(log) :
                  log[k].depth = 1 => log[k].idx <= Last(TopLog).idx

\* A listener of B threw while A was fired through its passthrough to B, and
\* a listener registered on A after the passthrough was skipped.
C11_Witness ==
    /\ outcome = "thrown"
    /\ err = "Ef"
    /\ Last(log).depth = 2
    /\ Last(log).ch # fch
    /\ Len(registered[fch]) > Len(TopLog)
    /\ registered[fch][Len(TopLog) + 1].kind = "fn"

\* -------------------------------------------------------------------- C12
\* The position in the log at which the invocation recorded at i is over:
\* the next invocation made at its depth or above, or the end of the log.
EndOf(i) ==
    LET later == {m \in (i + 1)..Len(log) : log[m].depth <= log[i].depth}
    IN IF later = {} THEN Len(log) + 1
       ELSE CHOOSE m \in later : \A n \in later : m <= n

\* The invocations made by the fire() that the invocation recorded at i
\* called, when that one is a passthrough.
NestedOf(i) == {m \in (i + 1)..(EndOf(i) - 1) : log[m].depth = log[i].depth + 1}

\* C12: every invocation made by a nested fire() follows the passthrough
\* entry that fired its controller and precedes the next invocation of the
\* caller's loop, and is the next registration of its controller in
\* registration order; invocations of one loop are recorded in registration
\* order; and once the caller's loop has gone on, or the firing has
\* returned, the nested fire() has invoked every registration of its
\* controller.
C12_PassthroughInPlace ==
    /\ \A j \in 1..Len(log) :
          log[j].depth >= 2 =>
              \E i \in 1..(j - 1) :
                  /\ log[i].depth = log[j].depth - 1
                  /\ \A m \in (i + 1)..(j - 1) : log[m].depth >= log[j].depth
                  /\ log[i].lis = BoundFire(log[j].ch)
                  /\ log[j].idx = 1 + Cardinality({m \in (i + 1)..(j - 1) :
                                                      log[m].depth = log[j].depth})
                  /\ log[j].lis = registered[log[j].ch][log[j].idx]
    /\ \A i \in 1..Len(log) :
          log[i].lis.kind = "pass" /\ (EndOf(i) <= Len(log) \/ outcome = "returned") =>
              /\ Cardinality(NestedOf(i)) >= Len(atStart[log[i].lis.to])
              /\ Cardinality(NestedOf(i)) <= Len(registered[log[i].lis.to])
              /\ \A k \in 1..Len(atStart[log[i].lis.to]) :
                    \E m \in NestedOf(i) :
                        log[m].idx = k /\ log[m].lis = atStart[log[i].lis.to][k]
    /\ outcome = "returned" => stack = <<>>

\* A was fired with a listener before and a listener after its passthrough
\* to B: the log reads listener, passthrough, listener of B, listener.
C12_Witness ==
    /\ outcome = "returned"
    /\ Len(log) = 4
    /\ log[1].depth = 1 /\ log[1].lis.kind = "fn"
    /\ log[2].depth = 1 /\ log[2].lis.kind = "pass"
    /\ log[3].depth = 2 /\ log[3].lis.kind = "fn" /\ log[3].ch # fch
    /\ log[4].depth = 1 /\ log[4].lis.kind = "fn" /\ log[4].idx = 3

\* -------------------------------------------------------------------- C13
\* A listener registered on the controller on which listener "r" registers.
RegisteredDuringFiring == Len(registered[RegTarget]) > Len(atStart[RegTarget])

\* Where the listener that registered during this firing was invoked.
RegisteringAt ==
    CHOOSE j \in 1..Len(log) :
        /\ log[j].lis.id \in RegisteringIds
        /\ \A m \in 1..(j - 1) : log[m].lis.id \notin RegisteringIds

\* The invocations recorded at i and at m were made by the same fire().
SameFiring(i, m) ==
    /\ log[i].depth = log[m].depth
    /\ \A n \in 1..Len(log) :
          (i < n /\ n < m) \/ (m < n /\ n < i) => log[n].depth >= log[i].depth

\* The fire() that made the invocation recorded at i was still active when
\* the invocation recorded at j was made.
ActiveAt(i, j) ==
    /\ i <= j
    /\ \A n \in (i + 1)..j : log[n].depth >= log[i].depth

\* The fire() that made the invocation recorded at i has returned.
LoopDone(i) ==
    \/ outcome = "returned"
    \/ \E n \in (i + 1)..Len(log) : log[n].depth < log[i].depth

C15_SequenceAsBeforeFiring ==
    outcome = "thrown" => listeners[fch] = atStart[fch]

\* C15, amended: a firing that ended with an error leaves no fire() active
\* and every array as it was before the firing, apart from the entry that
\* an invoked listener appended; the next fire() on that controller starts
\* at the first registration, invokes the registrations in order up to the
\* first one that raises, and, when none raises, invokes every registration
\* that the aborted firing skipped.
C15_NoResidue ==
    /\ outcome = "thrown" =>
          /\ stack = <<>>
          /\ listeners = registered
          /\ \A c \in Channels : IsPrefix(atStart[c], listeners[c])
          /\ (\A j \in 1..Len(log) : log[j].lis.id \notin RegisteringIds) =>
                listeners = atStart
    /\ refire > 0 =>
          /\ Fired
          /\ \A k \in 1..Len(TopLog) :
                TopLog[k].idx = k /\ TopLog[k].lis = listeners[fch][k]
          /\ stack # <<>> => stack[1].ch = fch /\ stack[1].i = Len(TopLog) + 1
          /\ outcome = "thrown" => err = RaisedBy(Last(log))
          /\ outcome = "returned" =>
                \A q \in (refire + 1)..Len(atStart[fch]) :
                    \E k \in 1..Len(TopLog) :
                        TopLog[k].idx = q /\ TopLog[k].lis = atStart[fch][q]

\* A firing was cut short by its second listener; the next firing of the
\* same controller started at the first listener again and went on to
\* invoke the listener that the aborted one had skipped.
C15_Witness ==
    /\ refire = 2
    /\ outcome = "returned"
    /\ Len(atStart[fch]) = 3
    /\ Len(TopLog) = 3
    /\ TopLog[1].idx = 1
    /\ TopLog[2].lis.id \in ThrowingIds

\* -------------------------------------------------------------------- C16
\* C16: a firing invokes registrations only of controllers on the
\* passthrough chains that start at the fired controller; a controller that
\* passes through to the fired one, and is not reached back from it, has
\* none of its registrations invoked.
C16_PassthroughIsOneWay ==
    Fired =>
        /\ \A j \in 1..Len(log) : log[j].ch \in ReachFrom(registered, fch)
        /\ \A x \in Channels :
              fch \in Edges(registered, x) /\ x \notin ReachFrom(registered, fch) =>
                  \A j \in 1..Len(log) : log[j].ch # x

\* B was fired and invoked its own listener, while A, which passes through
\* to B and has a listener of its own, was left alone.
C16_Witness ==
    /\ outcome = "returned"
    /\ log # <<>>
    /\ \E x \in Channels :
          /\ x \notin ReachFrom(registered, fch)
          /\ fch \in Edges(registered, x)
          /\ \E k \in 1..Len(registered[x]) : registered[x][k].kind = "fn"

\* -------------------------------------------------------------------- C17
\* The controller whose registration history grew in this step.
Registering(c) == registered'[c] # registered[c]

\* C17: a registration on controller c, made by client code or by a
\* listener during a firing, appends the registered listener to c's array
\* and leaves every other array as it was; a step of fire() that makes no
\* such registration - entering fire(), invoking a listener, returning,
\* ending with an error - leaves every array as it was.
C17_RegistryIsOwned ==
    [][/\ \A c \in Channels :
             Registering(c) =>
                 /\ registered'[c] = Append(registered[c], Last(registered'[c]))
                 /\ listeners'[c] = Append(listeners[c], Last(registered'[c]))
                 /\ \A x \in Channels \ {c} :
                       listeners'[x] = listeners[x] /\ registered'[x] = registered[x]
       /\ (\A c \in Channels : ~Registering(c)) => listeners' = listeners
       /\ stack # <<>> /\ listeners' # listeners =>
             /\ Len(log') = Len(log) + 1
             /\ Last(log').lis.id \in RegisteringIds]_vars

\* Two controllers hold different arrays, one of them extended by a
\* listener during a firing of the other.
C17_Witness ==
    /\ outcome = "returned"
    /\ fch # RegTarget
    /\ RegisteredDuringFiring
    /\ listeners[fch] # <<>>
    /\ listeners[RegTarget] # listeners[fch]
    /\ \E c \in Channels : listeners[c] = <<>>

====
